---------------------------- MODULE Spec2Model ----------------------------
(***************************************************************************)
(* Model of the orchestration gateway src/gateway/GatewayAllOne.js: the    *)
(* shared MCP connection handle (mcpClientPromise), the helpers            *)
(* translateToCypher, groundedAnswer and sendJson, and the Express route   *)
(* handlers.  A handler is an async function: it runs from one await to    *)
(* the next without interruption, so each action below is one such         *)
(* segment of a handler (with everything it calls), and the segments of    *)
(* different requests interleave freely.                                   *)
(*                                                                         *)
(* Representation.  A JavaScript string is a sequence of one-character     *)
(* strings.  A JavaScript value is a record [t, s]: t is its type tag and  *)
(* s its text (for a string) or a label identifying it (for an object).    *)
(* A property that is undefined is the value Undefined; res.json drops     *)
(* such properties, so an envelope field that is Undefined is absent.      *)
(***************************************************************************)
EXTENDS Integers, Sequences, FiniteSets, TLC

\* ------------------------------------------------------------- bounds

\* Requests accepted over one run (handler activations are recycled).
MaxRequests == 3

\* Longest text examined as a query body.
MaxLen == 5

\* Calls of callMcp made on one McpToolTester component.
MaxCalls == 4

\* Concurrent handler activations (in-flight requests).
Slots == {"a", "b"}

\* ------------------------------------------------------------- values

Undefined == [t |-> "undefined", s |-> <<>>]
Str(chars) == [t |-> "string", s |-> chars]
Obj(label) == [t |-> "object", s |-> label]

\* JavaScript truthiness, as used by || and by if (x).
Truthy(v) ==
  CASE v.t = "undefined" -> FALSE
    [] v.t = "null" -> FALSE
    [] v.t = "string" -> v.s # <<>>
    [] v.t = "boolean" -> v.s # <<"false">>
    [] v.t = "number" -> v.s # <<"0">>
    [] OTHER -> TRUE

\* a || b
Or(a, b) == IF Truthy(a) THEN a ELSE b

\* ------------------------------------------------------------- strings

\* The backtick character (written as a caret: the character itself cannot
\* stand in a string of this language).
BT == "^"
NL == "\n"
SP == " "
Letters == {"c", "M"}
Whitespace == {SP, NL}

RECURSIVE TrimStart(_)
TrimStart(str) ==
  IF str # <<>> /\ Head(str) \in Whitespace THEN TrimStart(Tail(str)) ELSE str

RECURSIVE TrimEnd(_)
TrimEnd(str) ==
  IF str # <<>> /\ str[Len(str)] \in Whitespace
  THEN TrimEnd(SubSeq(str, 1, Len(str) - 1))
  ELSE str

\* String.prototype.trim
Trim(str) == TrimEnd(TrimStart(str))

StartsWithFence(str) ==
  Len(str) >= 3 /\ str[1] = BT /\ str[2] = BT /\ str[3] = BT

\* Mutant of DropLetters: the fence pattern without its [a-zA-Z]*.
DropNoLetters(str) == str

RECURSIVE DropLetters(_)
DropLetters(str) ==
  IF str # <<>> /\ Head(str) \in Letters THEN DropLetters(Tail(str)) ELSE str

DropNewline(str) == IF str # <<>> /\ Head(str) = NL THEN Tail(str) ELSE str

\* .replace(/BT BT BT [a-zA-Z]*\n?/g, ''): leftmost matches, greedy,
\* non-overlapping.
RECURSIVE StripOpenFences(_)
StripOpenFences(str) ==
  IF str = <<>> THEN <<>>
  ELSE IF StartsWithFence(str)
       THEN StripOpenFences(DropNewline(DropLetters(SubSeq(str, 4, Len(str)))))
       ELSE <<Head(str)>> \o StripOpenFences(Tail(str))

\* .replace(/BT BT BT/g, '')
RECURSIVE StripBareFences(_)
StripBareFences(str) ==
  IF str = <<>> THEN <<>>
  ELSE IF StartsWithFence(str)
       THEN StripBareFences(SubSeq(str, 4, Len(str)))
       ELSE <<Head(str)>> \o StripBareFences(Tail(str))

\* Mutant of CleanQuery: the text is trimmed before the fences are removed
\* and not after.
CleanQueryTrimFirst(content) == StripBareFences(StripOpenFences(Trim(content)))

\* The post-processing of translateToCypher: the query made of the raw
\* completion text.
CleanQuery(content) == Trim(StripBareFences(StripOpenFences(Trim(content))))

True == [t |-> "boolean", s |-> <<"true">>]

\* ------------------------------------------------------------- errors

\* A thrown exception (an Error object) and its message; NoError when
\* nothing was thrown.  A message is written as one element holding the text.
NoError == [thrown |-> FALSE, message |-> <<>>]
Error(msg) == [thrown |-> TRUE, message |-> msg]

ConnectMessage == <<"connect ECONNREFUSED 127.0.0.1:8005">>
ToolMessage == <<"MCP error -32602: Unknown tool">>
LlmMessage == <<"Request timed out.">>
SyntaxMessage == <<"Unexpected token M in JSON at position 0">>
NullMessage == <<"Cannot read properties of null (reading 'cypher')">>
SliceMessage == <<"Cannot read properties of undefined (reading 'slice')">>
SendMessage == <<"Converting circular structure to JSON">>

\* ------------------------------------------------------------- tool results

\* What client.callTool resolves to.  content is absent ("none"), an object
\* with json and text properties ("fields", the shape the handlers probe with
\* content?.json and content?.text) or an array of typed blocks ("blocks",
\* the shape /method2 probes with content?.[0]).  id labels the result object.
NoResult ==
  [id |-> "none", content |-> "none", json |-> Undefined, text |-> Undefined,
   blocks |-> <<>>]

TextBlock(text) == [type |-> "text", text |-> Str(text)]
ImageBlock == [type |-> "image", text |-> Undefined]

RBare == [NoResult EXCEPT !.id = "bare"]
RBoth ==
  [NoResult EXCEPT !.id = "both", !.content = "fields",
     !.json = Obj(<<"rows">>), !.text = Str(<<"[", "]">>)]
RText ==
  [NoResult EXCEPT !.id = "text", !.content = "fields",
     !.text = Str(<<"[", "]">>)]
RJson ==
  [NoResult EXCEPT !.id = "json", !.content = "blocks",
     !.blocks = <<TextBlock(<<"{", "cypher", "graphData", "}">>)>>]
RRaw ==
  [NoResult EXCEPT !.id = "raw", !.content = "blocks",
     !.blocks = <<TextBlock(<<"M", "c">>)>>]
RImage ==
  [NoResult EXCEPT !.id = "image", !.content = "blocks",
     !.blocks = <<ImageBlock, TextBlock(<<"{", "cypherQuery", "rows", "}">>)>>]

\* The results the tool peer may reply with.
ToolResults == {RBare, RBoth, RText, RJson, RRaw, RImage}

\* result.content?.json and result.content?.text
ContentJson(result) == IF result.content = "fields" THEN result.json ELSE Undefined
ContentText(result) == IF result.content = "fields" THEN result.text ELSE Undefined

\* The result object itself, as a value.
Whole(result) == Obj(<<"ToolResult", result.id>>)

\* toolResult.content?.[0]
NoBlock == [type |-> "undefined", text |-> Undefined]
FirstBlock(result) ==
  IF result.content = "blocks" /\ result.blocks # <<>>
  THEN result.blocks[1]
  ELSE NoBlock

\* JSON.parse on the texts of this model: an object text is "{", the keys it
\* holds, "}"; the text null is the JSON null; any other text is a syntax error.
JsonKeys == {"cypher", "cypherQuery", "graphData", "rows", "records"}
IsObjectText(text) ==
  /\ Len(text) >= 2
  /\ text[1] = "{"
  /\ text[Len(text)] = "}"
  /\ \A i \in 2..(Len(text) - 1) : text[i] \in JsonKeys
IsNullText(text) == text = <<"null">>
Parses(text) == IsObjectText(text) \/ IsNullText(text)

\* parsed[key] of the object JSON.parse returned for an object text.
Member(text, key) ==
  IF \E i \in 2..(Len(text) - 1) : text[i] = key
  THEN (IF key \in {"cypher", "cypherQuery"} THEN Str(<<"M", key>>) ELSE Obj(<<key>>))
  ELSE Undefined


\* ------------------------------------------------------------- envelope

False == [t |-> "boolean", s |-> <<"false">>]

\* The object literal handed to res.json; a field left Undefined is absent.
NoPayload ==
  [ok |-> Undefined, mode |-> Undefined, cypher |-> Undefined,
   result |-> Undefined, groundedAnswer |-> Undefined, tool |-> Undefined,
   message |-> Undefined, error |-> Undefined, service |-> Undefined,
   mcp |-> Undefined]

NoResponse == [status |-> 0, body |-> NoPayload]

\* err?.message || err
ErrorField(err) == Or(Str(err.message), Obj(<<"Error">>))

\* Mutant of sendJson: the failure branch without res.status(500).
sendJsonNoStatus(ok, payload, err) ==
  [status |-> 200,
   body |-> IF ok
            THEN [payload EXCEPT
                    !.ok = IF payload.ok = Undefined THEN True ELSE payload.ok]
            ELSE [NoPayload EXCEPT !.ok = False, !.error = ErrorField(err)]]

\* sendJson(res, ok, payload, err): { ok, ...payload } with status 200, or
\* { ok: false, error } with status 500.
sendJson(ok, payload, err) ==
  IF ok
  THEN [status |-> 200,
        body |-> [payload EXCEPT
                    !.ok = IF payload.ok = Undefined THEN True ELSE payload.ok]]
  ELSE [status |-> 500,
        body |-> [NoPayload EXCEPT !.ok = False, !.error = ErrorField(err)]]

\* ------------------------------------------------------------- collaborators

\* A reply of the text-generation service (openai.chat.completions.create):
\* the content of its first choice, or the error it rejected with.
NoLlmReply == [st |-> "none", text |-> <<>>, message |-> <<>>]
LlmText(text) == [NoLlmReply EXCEPT !.st = "text", !.text = text]
LlmFailure == [NoLlmReply EXCEPT !.st = "error", !.message = LlmMessage]

\* Completions for the query-synthesis prompt: a bare query, a fenced query,
\* blanks.
QueryTexts ==
  {<<"M", "c">>,
   <<BT, BT, BT, "c", NL, "M", "c", NL, BT, BT, BT>>,
   <<SP>>}

\* Completions for the grounding prompt.
AnswerTexts == {<<"c", SP, "M", NL>>, <<NL>>}

\* A reply of client.callTool: the result, or the error it rejected with.
NoToolReply == [st |-> "none", result |-> NoResult, message |-> <<>>]
ToolResolved(result) == [NoToolReply EXCEPT !.st = "result", !.result = result]
ToolFailure == [NoToolReply EXCEPT !.st = "error", !.message = ToolMessage]

\* An external call, as issued: svc is "llm" or "tool"; name is the prompt's
\* function or the tool's name; query is the query argument (of a tool) or
\* the Cypher line (of the grounding prompt); args is the arguments object of
\* a tool that takes no query.
Call(svc, name, query, args, question, data) ==
  [svc |-> svc, name |-> name, query |-> query, args |-> args,
   question |-> question, data |-> data]

\* translateToCypher up to its await: the completion request.
translateToCypherCall(question) ==
  Call("llm", Str(<<"translateToCypher">>), Undefined, Undefined, question, Undefined)

\* translateToCypher from its await on: the query, or the exception.
translateToCypher(reply) ==
  IF reply.st = "error"
  THEN [err |-> Error(reply.message), value |-> Undefined]
  ELSE [err |-> NoError, value |-> Str(CleanQuery(reply.text))]

\* groundedAnswer up to its await: JSON.stringify(undefined) is undefined and
\* .slice on it throws; otherwise the completion request.
groundedAnswerThrows(graphData) == graphData = Undefined
groundedAnswerCall(question, graphData, cypher) ==
  Call("llm", Str(<<"groundedAnswer">>), cypher, Undefined, question, graphData)

\* groundedAnswer from its await on.
groundedAnswer(reply) ==
  IF reply.st = "error"
  THEN [err |-> Error(reply.message), value |-> Undefined]
  ELSE [err |-> NoError, value |-> Str(Trim(reply.text))]

\* client.callTool({ name, arguments })
callTool(name, query, args) == Call("tool", name, query, args, Undefined, Undefined)


\* ------------------------------------------------------------- state

VARIABLES
  mcpClientPromise,  \* the shared handle: state, rejection reason, connects made
  alive,             \* the process is running
  req,               \* per activation: the request, its locals and its response
  served,            \* requests accepted so far
  probe,             \* the input and output of a function examined on its own
  tester             \* the McpToolTester component: its fields and its calls

vars == <<mcpClientPromise, alive, req, served, probe, tester>>

\* No function is under examination: the gateway runs.
NoProbe == [pc |-> "off"]

Endpoints ==
  {"/method1", "/method2", "/no-rag", "/sync/sf", "/mcp", "/schema/build",
   "/kg/build"}

\* Request bodies.
Questions == {Str(<<"q1">>), Str(<<"q2">>)}
ToolNames == {Str(<<"upsert_salesforce">>), Str(<<"no_such_tool">>), Undefined}
EmptyArgs == Obj(<<"{}">>)
ToolArgs == {Obj(<<"{question}">>), Undefined}
Record == Obj(<<"{records}">>)

\* One activation of a route handler.  ep, question, name and args are the
\* request; pc is the await the handler is suspended at; cypherQuery and data
\* are its locals; calls, synthR, toolR, groundR and thrown record what it
\* did and was answered; resp is what it sent; late tells that the handle had
\* already rejected when the request arrived; sends counts the bodies written
\* to res; brittle tells that res.json throws on the success envelope of this
\* request before it writes anything.
Idle ==
  [ep |-> "", pc |-> "idle", late |-> FALSE, question |-> Undefined,
   name |-> Undefined,
   args |-> Undefined, cypherQuery |-> Undefined, data |-> Undefined,
   calls |-> <<>>, synthR |-> NoLlmReply, toolR |-> NoToolReply,
   groundR |-> NoLlmReply, thrown |-> NoError, resp |-> NoResponse,
   sends |-> 0, brittle |-> FALSE]

\* Mutant of Catch: the failure envelope also carries the query computed so
\* far.
CatchWithQuery(r, err) ==
  [r EXCEPT !.pc = "done", !.thrown = err, !.sends = @ + 1,
     !.resp = [status |-> 500,
               body |-> [NoPayload EXCEPT !.ok = False, !.error = ErrorField(err),
                           !.cypher = r.cypherQuery]]]

\* catch (err) { sendJson(res, false, null, err); }
Catch(r, err) ==
  [r EXCEPT !.pc = "done", !.thrown = err, !.sends = @ + 1,
     !.resp = sendJson(FALSE, NoPayload, err)]

\* Mutant of Respond: a res.json that throws has written the body already.
RespondThenThrow(r, payload) ==
  IF r.brittle
  THEN Catch([r EXCEPT !.sends = @ + 1, !.resp = sendJson(TRUE, payload, NoError)],
             Error(SendMessage))
  ELSE [r EXCEPT !.pc = "done", !.sends = @ + 1,
          !.resp = sendJson(TRUE, payload, NoError)]

\* sendJson(res, true, payload) as the last statement of a try block: the
\* body is written, or res.json throws before writing and the catch runs.
Respond(r, payload) ==
  IF r.brittle THEN Catch(r, Error(SendMessage))
  ELSE [r EXCEPT !.pc = "done", !.sends = @ + 1,
          !.resp = sendJson(TRUE, payload, NoError)]

Issue(r, pc, call) == [r EXCEPT !.pc = pc, !.calls = Append(@, call)]

\* Mutant of HandleAfter: a handler that finds the handle rejected connects
\* again.
HandleReconnect(promise) ==
  IF promise.state = "rejected"
  THEN [state |-> "pending", reason |-> <<>>, connects |-> promise.connects + 1]
  ELSE promise

\* The handle as a handler leaves it: handlers only await it.
HandleAfter(promise) == promise

\* ------------------------------------------------------------- handlers

\* A handler from its invocation to its first await.
Begin(ep, question, name, args) ==
  LET r == [Idle EXCEPT !.ep = ep, !.question = question, !.name = name,
                        !.args = args]
  IN IF ep = "/method1"
     THEN Issue(r, "synth", translateToCypherCall(question))
     ELSE [r EXCEPT !.pc = "conn"]

\* Mutant of ClientCall: /mcp checks the name against the tools the gateway
\* itself calls and falls back to the read tool, and passes absent arguments on.
ClientCallChecked(r) ==
  CASE r.ep = "/method1" ->
         callTool(Str(<<"read_neo4j_cypher">>), r.cypherQuery, Undefined)
    [] r.ep = "/method2" ->
         callTool(Str(<<"text2cypher">>), r.question, Undefined)
    [] r.ep = "/sync/sf" ->
         callTool(Str(<<"upsert_salesforce">>), Undefined, r.args)
    [] r.ep = "/mcp" ->
         callTool(IF r.name = Str(<<"upsert_salesforce">>) THEN r.name
                  ELSE Str(<<"read_neo4j_cypher">>), Undefined, r.args)
    [] r.ep = "/schema/build" ->
         callTool(Str(<<"build_graph_schema">>), Undefined, EmptyArgs)
    [] OTHER ->
         callTool(Str(<<"build_kg_from_pdfs">>), Undefined, EmptyArgs)

\* The tool call a handler makes once it holds the client.
ClientCall(r) ==
  CASE r.ep = "/method1" ->
         callTool(Str(<<"read_neo4j_cypher">>), r.cypherQuery, Undefined)
    [] r.ep = "/method2" ->
         callTool(Str(<<"text2cypher">>), r.question, Undefined)
    [] r.ep = "/sync/sf" ->
         callTool(Str(<<"upsert_salesforce">>), Undefined, r.args)
    [] r.ep = "/mcp" ->
         callTool(r.name, Undefined, Or(r.args, EmptyArgs))
    [] r.ep = "/schema/build" ->
         callTool(Str(<<"build_graph_schema">>), Undefined, EmptyArgs)
    [] OTHER ->
         callTool(Str(<<"build_kg_from_pdfs">>), Undefined, EmptyArgs)

\* A handler resumed from its await of mcpClientPromise.
AfterConn(r, promise) ==
  IF promise.state = "rejected" THEN Catch(r, Error(promise.reason))
  ELSE IF r.ep = "/no-rag"
       THEN Issue(r, "synth", translateToCypherCall(r.question))
       ELSE Issue(r, "tool", ClientCall(r))

\* Mutant of AfterSynth: a failed completion is asked for once more.
AfterSynthRetry(r, reply) ==
  LET q == translateToCypher(reply)
      r1 == [r EXCEPT !.synthR = reply, !.cypherQuery = q.value]
  IN IF q.err.thrown
     THEN (IF Len(r.calls) < 2
           THEN Issue(r, "synth", translateToCypherCall(r.question))
           ELSE Catch(r1, q.err))
     ELSE IF r.ep = "/method1" THEN [r1 EXCEPT !.pc = "conn"]
     ELSE Issue(r1, "tool",
                callTool(Str(<<"read_neo4j_cypher">>), q.value, Undefined))

\* A handler resumed from its await of translateToCypher.
AfterSynth(r, reply) ==
  LET q == translateToCypher(reply)
      r1 == [r EXCEPT !.synthR = reply, !.cypherQuery = q.value]
  IN IF q.err.thrown THEN Catch(r1, q.err)
     ELSE IF r.ep = "/method1" THEN [r1 EXCEPT !.pc = "conn"]
     ELSE Issue(r1, "tool",
                callTool(Str(<<"read_neo4j_cypher">>), q.value, Undefined))

\* The call of groundedAnswer, which throws or suspends at its completion.
Ground(r) ==
  IF groundedAnswerThrows(r.data) THEN Catch(r, Error(SliceMessage))
  ELSE Issue(r, "ground", groundedAnswerCall(r.question, r.data, r.cypherQuery))

\* /method1: result.content?.json || result.content?.text || result
Method1Data(result) == Or(Or(ContentJson(result), ContentText(result)), Whole(result))

\* Mutant of NoRagResult: the json field first, as /method1 has it.
NoRagResultJsonFirst(result) ==
  Or(Or(ContentJson(result), ContentText(result)), Whole(result))

\* /no-rag: result.content?.text || result.content?.json || result
NoRagResult(result) == Or(Or(ContentText(result), ContentJson(result)), Whole(result))

\* the other endpoints: result.content?.json || result.content?.text
PlainResult(result) == Or(ContentJson(result), ContentText(result))

\* The object JSON.parse returned, by the keys /method2 reads; a key the
\* text does not have is Undefined.
ParsedObject(text) ==
  [cypher |-> Member(text, "cypher"), cypherQuery |-> Member(text, "cypherQuery"),
   graphData |-> Member(text, "graphData"), rows |-> Member(text, "rows"),
   records |-> Member(text, "records")]

\* cypherQuery = parsed.cypher || parsed.cypherQuery
CypherQueryOf(parsed) == Or(parsed.cypher, parsed.cypherQuery)

\* graphData = parsed.graphData || parsed.rows || parsed.records || ""
GraphDataOf(parsed) ==
  Or(Or(Or(parsed.graphData, parsed.rows), parsed.records), Str(<<>>))

\* /method2, from the result of text2cypher to the call of groundedAnswer.
Method2Extract(r, result) ==
  LET block == FirstBlock(result) IN
  IF block.type = "text" /\ Truthy(block.text)
  THEN LET text == block.text.s IN
       IF ~Parses(text) THEN Catch(r, Error(SyntaxMessage))
       ELSE IF IsNullText(text) THEN Catch(r, Error(NullMessage))
       ELSE Ground([r EXCEPT
              !.cypherQuery = CypherQueryOf(ParsedObject(text)),
              !.data = GraphDataOf(ParsedObject(text))])
  ELSE Ground(r)

\* Mutant of AfterTool: /method1 grounds on empty data when the tool call
\* failed.
AfterToolLenient(r, reply) ==
  LET r1 == [r EXCEPT !.toolR = reply]
      result == reply.result
  IN IF reply.st = "error"
     THEN (IF r.ep = "/method1" THEN Ground([r1 EXCEPT !.data = Str(<<>>)])
           ELSE Catch(r1, Error(reply.message)))
     ELSE CASE r.ep = "/method1" ->
                 Ground([r1 EXCEPT !.data = Method1Data(result)])
            [] r.ep = "/method2" -> Method2Extract(r1, result)
            [] r.ep = "/no-rag" ->
                 Respond(r1, [NoPayload EXCEPT !.mode = Str(<<"no-rag">>),
                                !.cypher = r.cypherQuery,
                                !.result = NoRagResult(result)])
            [] r.ep = "/sync/sf" ->
                 Respond(r1, [NoPayload EXCEPT !.ok = True,
                                !.message = Str(<<"Salesforce data synced">>),
                                !.result = PlainResult(result)])
            [] r.ep = "/mcp" ->
                 Respond(r1, [NoPayload EXCEPT !.ok = True, !.tool = r.name,
                                !.result = PlainResult(result)])
            [] OTHER ->
                 Respond(r1, [NoPayload EXCEPT !.result = PlainResult(result)])

\* A handler resumed from its await of client.callTool.
AfterTool(r, reply) ==
  LET r1 == [r EXCEPT !.toolR = reply]
      result == reply.result
  IN IF reply.st = "error" THEN Catch(r1, Error(reply.message))
     ELSE CASE r.ep = "/method1" ->
                 Ground([r1 EXCEPT !.data = Method1Data(result)])
            [] r.ep = "/method2" -> Method2Extract(r1, result)
            [] r.ep = "/no-rag" ->
                 Respond(r1, [NoPayload EXCEPT !.mode = Str(<<"no-rag">>),
                                !.cypher = r.cypherQuery,
                                !.result = NoRagResult(result)])
            [] r.ep = "/sync/sf" ->
                 Respond(r1, [NoPayload EXCEPT !.ok = True,
                                !.message = Str(<<"Salesforce data synced">>),
                                !.result = PlainResult(result)])
            [] r.ep = "/mcp" ->
                 Respond(r1, [NoPayload EXCEPT !.ok = True, !.tool = r.name,
                                !.result = PlainResult(result)])
            [] OTHER ->
                 Respond(r1, [NoPayload EXCEPT !.result = PlainResult(result)])

\* The query another activation computed last, as a variable shared by the
\* handlers would hold it.
SharedQuery(r) ==
  LET others == {s \in Slots : req[s] # r /\ req[s].cypherQuery # Undefined}
  IN IF others = {} THEN r.cypherQuery
     ELSE req[CHOOSE s \in others : TRUE].cypherQuery

\* Mutant of AfterGround: the query is read from a variable the handlers share.
AfterGroundShared(r, reply) ==
  LET g == groundedAnswer(reply)
      r1 == [r EXCEPT !.groundR = reply]
  IN IF g.err.thrown THEN Catch(r1, g.err)
     ELSE Respond(r1, [NoPayload EXCEPT
            !.mode = Str(<<IF r.ep = "/method1" THEN "method1" ELSE "method2">>),
            !.cypher = SharedQuery(r), !.groundedAnswer = g.value])

\* Mutant of AfterGround: a failed grounding is answered with the query and
\* the data, tagged as partial.
AfterGroundPartial(r, reply) ==
  LET g == groundedAnswer(reply)
      r1 == [r EXCEPT !.groundR = reply]
      mode == Str(<<IF r.ep = "/method1" THEN "method1" ELSE "method2">>)
  IN IF g.err.thrown
     THEN [Catch(r1, g.err) EXCEPT
             !.resp.body.cypher = r.cypherQuery, !.resp.body.result = r.data]
     ELSE Respond(r1, [NoPayload EXCEPT !.mode = mode,
            !.cypher = r.cypherQuery, !.groundedAnswer = g.value])

\* A handler resumed from its await of groundedAnswer.
AfterGround(r, reply) ==
  LET g == groundedAnswer(reply)
      r1 == [r EXCEPT !.groundR = reply]
  IN IF g.err.thrown THEN Catch(r1, g.err)
     ELSE Respond(r1, [NoPayload EXCEPT
            !.mode = Str(<<IF r.ep = "/method1" THEN "method1" ELSE "method2">>),
            !.cypher = r.cypherQuery, !.groundedAnswer = g.value])

\* Mutant of Health: mcp reports whether the connection is established.
HealthProbed ==
  [Idle EXCEPT !.ep = "/health", !.pc = "done", !.sends = 1,
     !.resp = [status |-> 200,
               body |-> [NoPayload EXCEPT !.ok = True,
                           !.service = Str(<<"Gateway">>),
                           !.mcp = IF mcpClientPromise.state = "fulfilled"
                                   THEN True ELSE False]]]

\* GET /health
Health ==
  [Idle EXCEPT !.ep = "/health", !.pc = "done", !.sends = 1,
     !.resp = [status |-> 200,
               body |-> [NoPayload EXCEPT !.ok = True,
                           !.service = Str(<<"Gateway">>), !.mcp = True]]]


\* ------------------------------------------------------------- actions

\* let mcpClientPromise = createMcpClient(), run once as the module loads.
Loaded ==
  /\ mcpClientPromise = [state |-> "pending", reason |-> <<>>, connects |-> 1]
  /\ alive = TRUE
  /\ req = [s \in Slots |-> Idle]
  /\ served = 0

\* The McpToolTester component as constructed: result and error are declared
\* without a value, loading is false, no call has been made.
NoTester ==
  [loading |-> FALSE, result |-> Undefined, error |-> Undefined,
   pending |-> {}, started |-> 0]
Mounted == tester = NoTester

Init == Loaded /\ probe = NoProbe /\ Mounted

\* client.connect resolves: createMcpClient returns the client.
ConnectOk ==
  /\ alive
  /\ mcpClientPromise.state = "pending"
  /\ mcpClientPromise' = [mcpClientPromise EXCEPT !.state = "fulfilled"]
  /\ UNCHANGED <<alive, req, served, probe, tester>>

\* client.connect rejects: the handle rejects with the error.  A rejection no
\* handler is awaiting is an unhandled rejection, which the runtime reports
\* and, by its setting, may end the process on.
ConnectFail ==
  /\ alive
  /\ mcpClientPromise.state = "pending"
  /\ mcpClientPromise' =
       [mcpClientPromise EXCEPT !.state = "rejected", !.reason = ConnectMessage]
  /\ alive' \in (IF \E s \in Slots : req[s].pc = "conn" THEN {TRUE} ELSE {TRUE, FALSE})
  /\ UNCHANGED <<req, served, probe, tester>>

Accept(s, r) ==
  /\ alive
  /\ served < MaxRequests
  /\ req[s].pc = "idle"
  /\ req' = [req EXCEPT ![s] = [r EXCEPT !.late = mcpClientPromise.state = "rejected"]]
  /\ served' = served + 1
  /\ UNCHANGED <<mcpClientPromise, alive, probe, tester>>

\* A request arrives and its handler runs to its first await.
Receive(s) ==
  \/ \E ep \in {"/method1", "/method2", "/no-rag"}, q \in Questions :
       Accept(s, Begin(ep, q, Undefined, Undefined))
  \/ Accept(s, Begin("/sync/sf", Undefined, Undefined, Record))
  \/ \E name \in ToolNames, args \in ToolArgs :
       Accept(s, Begin("/mcp", Undefined, name, args))
  \/ \E ep \in {"/schema/build", "/kg/build"} :
       Accept(s, Begin(ep, Undefined, Undefined, Undefined))

\* GET /health arrives and is answered.
ReceiveHealth(s) == Accept(s, Health)

Step(s, r) ==
  /\ alive
  /\ req' = [req EXCEPT ![s] = r]
  /\ UNCHANGED <<alive, served, probe, tester>>

\* The handle has settled and a handler awaiting it resumes.
ResumeConn(s) ==
  /\ req[s].pc = "conn"
  /\ mcpClientPromise.state # "pending"
  /\ Step(s, AfterConn(req[s], mcpClientPromise))
  /\ mcpClientPromise' = HandleAfter(mcpClientPromise)

\* The text-generation service answers the query-synthesis prompt.
ResumeSynth(s) ==
  /\ req[s].pc = "synth"
  /\ \E reply \in {LlmFailure} \cup {LlmText(x) : x \in QueryTexts} :
       Step(s, AfterSynth(req[s], reply))
  /\ mcpClientPromise' = HandleAfter(mcpClientPromise)

\* The tool peer answers a tool call.
ResumeTool(s) ==
  /\ req[s].pc = "tool"
  /\ \E reply \in {ToolFailure} \cup {ToolResolved(x) : x \in ToolResults} :
       Step(s, AfterTool(req[s], reply))
  /\ mcpClientPromise' = HandleAfter(mcpClientPromise)

\* The text-generation service answers the grounding prompt.
ResumeGround(s) ==
  /\ req[s].pc = "ground"
  /\ \E reply \in {LlmFailure} \cup {LlmText(x) : x \in AnswerTexts} :
       Step(s, AfterGround(req[s], reply))
  /\ mcpClientPromise' = HandleAfter(mcpClientPromise)

\* The response has been sent and the activation is over.
Close(s) ==
  /\ alive
  /\ req[s].pc = "done"
  /\ req' = [req EXCEPT ![s] = Idle]
  /\ UNCHANGED <<mcpClientPromise, alive, served, probe, tester>>

Next ==
  \/ ConnectOk
  \/ ConnectFail
  \/ \E s \in Slots :
       \/ Receive(s)
       \/ ReceiveHealth(s)
       \/ ResumeConn(s)
       \/ ResumeSynth(s)
       \/ ResumeTool(s)
       \/ ResumeGround(s)
       \/ Close(s)

Spec == Init /\ [][Next]_vars


\* ------------------------------------------------------------- properties

Done(s) == req[s].pc = "done"
UsesClient(s) == req[s].ep \in Endpoints
Body(s) == req[s].resp.body
Status(s) == req[s].resp.status

\* The calls an activation issued to the tool peer, and to the
\* text-generation service for grounding.
ToolCalls(r) == {i \in 1..Len(r.calls) : r.calls[i].svc = "tool"}
GroundCalls(r) ==
  {i \in 1..Len(r.calls) : r.calls[i].name = Str(<<"groundedAnswer">>)}
LlmCalls(r) == {i \in 1..Len(r.calls) : r.calls[i].svc = "llm"}

NonEmptyString(v) == v.t = "string" /\ v.s # <<>>

\* C1: every response of an endpoint that uses the client is either status 200
\* with ok = true, sent when nothing was thrown and no external call failed, or
\* status 500 with ok = false and error equal to the message of the exception
\* thrown (the message of the failed tool call or completion when that is what
\* failed); no other status is produced.
C1_StatusAndError ==
  \A s \in Slots : (Done(s) /\ UsesClient(s)) =>
    LET r == req[s] IN
    /\ Status(s) \in {200, 500}
    /\ Status(s) = 200 <=> ~r.thrown.thrown
    /\ Status(s) = 200 <=> Body(s).ok = True
    /\ Status(s) = 500 <=> Body(s).ok = False
    /\ Status(s) = 500 => Body(s).error = Str(r.thrown.message)
    /\ Status(s) = 200 =>
         "error" \notin {r.synthR.st, r.toolR.st, r.groundR.st}
    /\ r.toolR.st = "error" =>
         Status(s) = 500 /\ Body(s).error = Str(r.toolR.message)
    /\ r.synthR.st = "error" =>
         Status(s) = 500 /\ Body(s).error = Str(r.synthR.message)
    /\ r.groundR.st = "error" =>
         Status(s) = 500 /\ Body(s).error = Str(r.groundR.message)

\* C1 witness: a request whose tool call failed has been answered.
C1_Witness ==
  \E s \in Slots :
    Done(s) /\ UsesClient(s) /\ req[s].toolR.st = "error" /\ Status(s) = 500

OnlyError(body) == [body EXCEPT !.ok = Undefined, !.error = Undefined] = NoPayload

\* C2: in every response envelope, ok = true implies that error is absent,
\* and ok = false implies that error is present and is the only field besides
\* ok, whatever the handler had computed before the failure.
C2_EnvelopeShape ==
  \A s \in Slots : Done(s) =>
    /\ Body(s).ok \in {True, False}
    /\ Body(s).ok = True => Body(s).error = Undefined
    /\ Body(s).ok = False => Body(s).error # Undefined /\ OnlyError(Body(s))

\* C2 witness: a failure envelope sent after the query and the data had been
\* computed.
C2_Witness ==
  \E s \in Slots :
    /\ Done(s)
    /\ Body(s).ok = False
    /\ req[s].cypherQuery # Undefined
    /\ req[s].data # Undefined

\* C3: a /method1 request ends with ok = true, a non-empty cypher and a
\* non-empty groundedAnswer, or with ok = false and error set.
C3_DirectCypherEnvelope ==
  \A s \in Slots : (Done(s) /\ req[s].ep = "/method1") =>
    \/ /\ Body(s).ok = True
       /\ NonEmptyString(Body(s).cypher)
       /\ NonEmptyString(Body(s).groundedAnswer)
    \/ Body(s).ok = False /\ Body(s).error # Undefined


\* C4: a successful /no-rag response has mode "no-rag", cypher equal to the
\* query argument of the one read_neo4j_cypher call the request made, result
\* equal to the text field of that call's result if it has one, else to its
\* json field if it has one, else to the result itself; it has no
\* groundedAnswer, and the request issued no grounding call.
C4_NoRagEnvelope ==
  \A s \in Slots : (Done(s) /\ req[s].ep = "/no-rag" /\ Status(s) = 200) =>
    LET r == req[s]
        got == r.toolR.result
    IN /\ Body(s).mode = Str(<<"no-rag">>)
       /\ \E i \in ToolCalls(r) :
            /\ ToolCalls(r) = {i}
            /\ r.calls[i].name = Str(<<"read_neo4j_cypher">>)
            /\ r.calls[i].query = Body(s).cypher
       /\ Body(s).cypher = Str(CleanQuery(r.synthR.text))
       /\ Body(s).result =
            (IF got.content = "fields" /\ Truthy(got.text) THEN got.text
             ELSE IF got.content = "fields" /\ Truthy(got.json) THEN got.json
             ELSE Obj(<<"ToolResult", got.id>>))
       /\ Body(s).groundedAnswer = Undefined
       /\ GroundCalls(r) = {}

\* C4 witness: a successful /no-rag response for a fenced completion and a
\* result that has both a json and a text field.
C4_Witness ==
  \E s \in Slots :
    /\ Done(s) /\ req[s].ep = "/no-rag" /\ Status(s) = 200
    /\ req[s].toolR.result = RBoth
    /\ req[s].synthR.text # CleanQuery(req[s].synthR.text)
    /\ Body(s).cypher # Str(<<>>)

\* C5: a /mcp request makes at most one tool call and no call to the
\* text-generation service; the call names exactly params.name, known or not,
\* and carries params.arguments, or the empty mapping when arguments is
\* absent; a successful response has tool equal to params.name.
C5_Passthrough ==
  \A s \in Slots : req[s].ep = "/mcp" =>
    LET r == req[s] IN
    /\ LlmCalls(r) = {}
    /\ Len(r.calls) <= 1
    /\ r.pc \in {"tool"} => Len(r.calls) = 1
    /\ r.toolR.st # "none" => Len(r.calls) = 1
    /\ \A i \in ToolCalls(r) :
         /\ r.calls[i].name = r.name
         /\ r.calls[i].args = (IF r.args = Undefined THEN EmptyArgs ELSE r.args)
         /\ r.calls[i].query = Undefined
    /\ (Done(s) /\ Status(s) = 200) => Body(s).tool = r.name

\* C5 witness: a successful /mcp response for a tool name the gateway does
\* not know of, sent without arguments.
C5_Witness ==
  \E s \in Slots :
    /\ Done(s) /\ req[s].ep = "/mcp" /\ Status(s) = 200
    /\ req[s].name = Str(<<"no_such_tool">>)
    /\ req[s].args = Undefined
    /\ req[s].calls[1].args = EmptyArgs

\* C6: in /method1 and /no-rag, a failed or empty query synthesis fails the
\* request and no read_neo4j_cypher call carries an empty query.
C6_NoEmptyQuery ==
  \A s \in Slots : req[s].ep \in {"/method1", "/no-rag"} =>
    LET r == req[s] IN
    /\ (r.synthR.st = "error" \/ (r.synthR.st = "text" /\ Trim(r.synthR.text) = <<>>)) =>
         /\ ToolCalls(r) = {}
         /\ Done(s) => Body(s).ok = False
    /\ \A i \in ToolCalls(r) : r.calls[i].query # Str(<<>>)

\* The grounding step failed: the completion was rejected, or groundedAnswer
\* threw before requesting it.
GroundFailed(r) ==
  r.ep \in {"/method1", "/method2"} /\ r.toolR.st = "result"
  /\ (r.groundR.st = "error" \/ r.thrown = Error(SliceMessage))

\* C7 as stated: when grounding fails after the earlier steps succeeded, the
\* response carries the query and the data already computed.
C7_PartialResultsReturned ==
  \A s \in Slots : (Done(s) /\ GroundFailed(req[s])) =>
    /\ Body(s).cypher = req[s].cypherQuery
    /\ Body(s).result = req[s].data

\* C7 amended: when grounding fails after the earlier steps succeeded, the
\* response is the failure envelope, status 500 with ok = false and the
\* grounding failure's message as error, and carries neither the query nor
\* the data.
C7_PartialResultsDiscarded ==
  \A s \in Slots : (Done(s) /\ GroundFailed(req[s])) =>
    /\ Status(s) = 500
    /\ Body(s).ok = False
    /\ Body(s).error =
         Str(IF req[s].groundR.st = "error" THEN req[s].groundR.message
             ELSE SliceMessage)
    /\ Body(s).cypher = Undefined
    /\ Body(s).result = Undefined
    /\ Body(s).groundedAnswer = Undefined

\* C7 witness: grounding was rejected in /method1 and in /method2 with a
\* query and data in hand.
C7_Witness ==
  \E s \in Slots :
    /\ Done(s) /\ req[s].groundR.st = "error"
    /\ req[s].ep = "/method2"
    /\ NonEmptyString(req[s].cypherQuery)
    /\ req[s].data # Undefined


\* A request that arrived after the connection attempt had failed, answered.
LateDone(s) == Done(s) /\ UsesClient(s) /\ req[s].late

\* C8 as stated: one connection attempt is made, and once it has failed every
\* later request to an endpoint that uses the client ends with status 500 and
\* the connection error, having issued no tool call.
C8_ConnectErrorOnEveryRequest ==
  /\ mcpClientPromise.connects = 1
  /\ \A s \in Slots : req[s].late => ToolCalls(req[s]) = {}
  /\ \A s \in Slots : LateDone(s) =>
       Status(s) = 500 /\ Body(s).error = Str(ConnectMessage)

\* C8 amended: one connection attempt is made and no other ever; once it has
\* failed, every later request to an endpoint that uses the client ends with
\* status 500 and issues no tool call; the error is the connection error,
\* except in /method1, which synthesizes the query before it awaits the
\* handle: when that synthesis fails the error is the synthesis failure's.
C8_FailFastAfterConnectFailure ==
  /\ mcpClientPromise.connects = 1
  /\ \A s \in Slots : req[s].late =>
       /\ mcpClientPromise.state = "rejected"
       /\ ToolCalls(req[s]) = {}
  /\ \A s \in Slots : LateDone(s) =>
       /\ Status(s) = 500
       /\ Body(s).ok = False
       /\ Body(s).error =
            (IF req[s].ep = "/method1" /\ req[s].synthR.st = "error"
             THEN Str(req[s].synthR.message)
             ELSE Str(ConnectMessage))

\* C8 witness: two requests that arrived after the failure have both been
\* answered with the connection error, one of them a /method1 request whose
\* synthesis succeeded.
C8_Witness ==
  \E s1, s2 \in Slots :
    /\ s1 # s2
    /\ LateDone(s1) /\ LateDone(s2)
    /\ req[s1].ep = "/method1" /\ req[s1].synthR.st = "text"
    /\ Body(s1).error = Str(ConnectMessage)
    /\ Body(s2).error = Str(ConnectMessage)

\* Every reply an activation received was a success.
AllRepliesOk(r) == "error" \notin {r.synthR.st, r.toolR.st, r.groundR.st}

\* C9: whatever requests have run, the handle is the one made at start-up
\* (an activation that holds the client implies the handle is fulfilled, and
\* no second connection was made), and a request whose own external calls all
\* succeeded on an established connection ends with ok = true.
C9_FailureIsolation ==
  /\ mcpClientPromise.connects = 1
  /\ \A s \in Slots :
       ToolCalls(req[s]) # {} => mcpClientPromise.state = "fulfilled"
  /\ \A s \in Slots :
       (Done(s) /\ UsesClient(s) /\ mcpClientPromise.state = "fulfilled"
          /\ AllRepliesOk(req[s])) => Body(s).ok = True

\* The activation r run alone: its handler's segments applied in turn to the
\* replies r received.
Advance(x, r) ==
  CASE x.pc = "synth" -> AfterSynth(x, r.synthR)
    [] x.pc = "conn" -> AfterConn(x, mcpClientPromise)
    [] x.pc = "tool" -> AfterTool(x, r.toolR)
    [] x.pc = "ground" -> AfterGround(x, r.groundR)
    [] OTHER -> x
Alone(r) ==
  LET b == IF r.ep = "/health" THEN Health
           ELSE Begin(r.ep, r.question, r.name, r.args)
      x0 == [b EXCEPT !.late = r.late]
      x1 == Advance(x0, r)
      x2 == Advance(x1, r)
      x3 == Advance(x2, r)
  IN Advance(x3, r)

\* The values an activation's response may hold: those of its own request
\* and of the replies it received, and the handlers' literals.
OwnValues(r) ==
  LET got == r.toolR.result
      text == FirstBlock(got).text.s
  IN {Undefined, r.name, Str(CleanQuery(r.synthR.text)), Str(Trim(r.groundR.text)),
      got.json, got.text, Whole(got), Member(text, "cypher"),
      Member(text, "cypherQuery")}
ResponseValues(r) ==
  {r.resp.body.cypher, r.resp.body.result, r.resp.body.tool,
   r.resp.body.groundedAnswer}

\* C10: under every interleaving, an answered request is in the state, and
\* has sent the response and issued the calls, that its handler reaches when
\* run alone on the replies the request received; the values in its response
\* are those of its own request and replies; and a step of one activation
\* changes no other activation and not the handle.
C10_Independence ==
  /\ [](\A s \in Slots : Done(s) =>
          /\ req[s] = Alone(req[s])
          /\ ResponseValues(req[s]) \subseteq OwnValues(req[s]))
  /\ [][/\ \A s, o \in Slots : (s # o /\ req'[s] # req[s]) => req'[o] = req[o]
        /\ (\E s \in Slots : req'[s] # req[s]) => mcpClientPromise' = mcpClientPromise]_vars

\* C10 witness: two requests with different questions are in flight at
\* once, one answered while the other is suspended at a later await.
C10_Witness ==
  \E s, o \in Slots :
    /\ s # o
    /\ Done(s) /\ Status(s) = 200 /\ req[s].ep = "/method1"
    /\ req[o].ep = "/method1" /\ req[o].pc = "ground"
    /\ req[o].question # req[s].question
    /\ req[o].cypherQuery # req[s].cypherQuery


\* ------------------------------------------------------------- waiting

\* The gateway with the scheduling the event loop guarantees: a handler whose
\* awaited handle has settled is resumed, and an answered activation ends.
\* Nothing makes the tool peer or the text-generation service reply, and the
\* handlers arm no timer of their own.
SpecFair ==
  /\ Init
  /\ [][Next]_vars
  /\ \A s \in Slots : WF_vars(ResumeConn(s)) /\ WF_vars(Close(s))

InFlight(s) == req[s].pc \in {"conn", "synth", "tool", "ground"}

\* C11: every request that a handler has taken up is eventually answered,
\* also when the connection attempt never settles or an external call never
\* replies.
C11_EveryRequestAnswered == \A s \in Slots : InFlight(s) ~> Done(s)


\* ------------------------------------------------------------- query synthesis alone

\* The characters of the texts examined: the backtick, a letter, the
\* newline, the blank and a character that is none of these.
Alphabet == {BT, "c", NL, SP, "("}
Texts == UNION {[1..n -> Alphabet] : n \in 0..MaxLen}
Tags == {<<>>, <<"c">>, <<"c", "M">>}

\* A completion that wraps body in an opening fence with a language tag and
\* a bare closing fence.
Fenced(tag, body) == <<BT, BT, BT>> \o tag \o <<NL>> \o body \o <<NL, BT, BT, BT>>

\* The completions handed to translateToCypher: every text up to MaxLen as
\* it stands, and wrapped in a fence under each tag.
SynthProbes ==
  {[pc |-> "raw", shape |-> "plain", tag |-> <<>>, body |-> b, text |-> b,
    query |-> Undefined] : b \in Texts}
  \cup
  {[pc |-> "raw", shape |-> "fenced", tag |-> g, body |-> b,
    text |-> Fenced(g, b), query |-> Undefined] : g \in Tags, b \in Texts}

SynthInit == Loaded /\ Mounted /\ probe \in SynthProbes

\* translateToCypher resumes with the completion and returns the query.
Synthesize ==
  /\ probe.pc = "raw"
  /\ probe' = [probe EXCEPT !.pc = "done",
                 !.query = translateToCypher(LlmText(probe.text)).value]
  /\ UNCHANGED <<mcpClientPromise, alive, req, served, tester>>

SpecSynth == SynthInit /\ [][Synthesize]_vars

HasFence(str) ==
  \E i \in 1..(Len(str) - 2) : str[i] = BT /\ str[i + 1] = BT /\ str[i + 2] = BT

Trimmed(str) ==
  str = <<>> \/ (str[1] \notin Whitespace /\ str[Len(str)] \notin Whitespace)

\* C12: whatever the completion, the query translateToCypher returns holds no
\* three consecutive backticks and neither starts nor ends with whitespace.
C12_NoFenceInQuery ==
  probe.pc = "done" =>
    /\ probe.query.t = "string"
    /\ ~HasFence(probe.query.s)
    /\ Trimmed(probe.query.s)

\* C12 witness: a completion with a fence and whitespace around it has been
\* turned into a non-empty query.
C12_Witness ==
  /\ probe.pc = "done"
  /\ probe.shape = "plain"
  /\ HasFence(probe.text)
  /\ ~Trimmed(probe.text)
  /\ probe.query.s # <<>>

\* C13: a body without backticks and without whitespace at its ends, wrapped
\* in an opening fence with a language tag and a bare closing fence, is
\* synthesized to exactly that body; given as it stands, it is returned
\* unchanged.
C13_FencedBodyRecovered ==
  (/\ probe.pc = "done"
   /\ Trimmed(probe.body)
   /\ \A i \in 1..Len(probe.body) : probe.body[i] # BT)
  => probe.query = Str(probe.body)

\* C13 witness: a fenced completion with a language tag and a body with a
\* newline inside has been synthesized.
C13_Witness ==
  /\ probe.pc = "done"
  /\ probe.shape = "fenced"
  /\ probe.tag = <<"c", "M">>
  /\ probe.body = <<"c", NL, "(", SP, "c">>
  /\ probe.query = Str(probe.body)


\* ------------------------------------------------------------- payload extraction

\* The endpoints that take a payload out of result.content, and the payload
\* an activation took: the data it grounds on, or the result it returns.
Extracting == Endpoints \ {"/method2"}
Extracted(s) ==
  /\ req[s].ep \in Extracting
  /\ req[s].toolR.st = "result"
  /\ req[s].pc \in {"ground", "done"}
Payload(s) == IF req[s].ep = "/method1" THEN req[s].data ELSE Body(s).result

\* C14: when result.content has both a json and a text field, the payload
\* is the json field; it is the text field only when json is absent.
C14_JsonFieldWins ==
  \A s \in Slots : (Extracted(s) /\ req[s].toolR.result.content = "fields") =>
    LET got == req[s].toolR.result IN
    /\ got.json # Undefined => Payload(s) = got.json
    /\ (got.json = Undefined /\ got.text # Undefined) => Payload(s) = got.text

\* C15: for a result whose content has neither a json nor a text field (or
\* that has no content) the payload is the empty string, and the request does
\* not fail because of the shape.
C15_EmptySentinel ==
  \A s \in Slots :
    (/\ Extracted(s)
     /\ ContentJson(req[s].toolR.result) = Undefined
     /\ ContentText(req[s].toolR.result) = Undefined) =>
    /\ Payload(s) = Str(<<>>)
    /\ req[s].thrown.thrown => req[s].groundR.st = "error"

\* C16: in /method1 and /method2, once the tool call has succeeded the
\* grounding call is issued, whatever data could be extracted, and when the
\* grounding completion arrives the response is a success with groundedAnswer.
C16_AlwaysGrounded ==
  \A s \in Slots :
    (/\ req[s].ep \in {"/method1", "/method2"}
     /\ req[s].toolR.st = "result"
     /\ (req[s].ep = "/method2" => ~Truthy(FirstBlock(req[s].toolR.result).text)))
    => /\ GroundCalls(req[s]) # {}
       /\ (Done(s) /\ req[s].groundR.st = "text") =>
            /\ Status(s) = 200
            /\ Body(s).groundedAnswer.t = "string"


\* ------------------------------------------------------------- order of the steps

\* The external calls of an activation, by name, in the order it issued them.
CallNames(r) == [i \in 1..Len(r.calls) |-> r.calls[i].name.s[1]]
IsPrefix(a, b) == Len(a) <= Len(b) /\ \A i \in 1..Len(a) : a[i] = b[i]

\* The steps of the grounded modes.
Plan(ep) ==
  IF ep = "/method1"
  THEN <<"translateToCypher", "read_neo4j_cypher", "groundedAnswer">>
  ELSE <<"text2cypher", "groundedAnswer">>
ToolStep(ep) == IF ep = "/method1" THEN 2 ELSE 1

\* A step of the activation failed: a call was rejected, the connection was
\* refused, or the handler threw between two calls.
StepFailed(r) ==
  \/ r.synthR.st = "error" \/ r.toolR.st = "error" \/ r.groundR.st = "error"
  \/ r.thrown.thrown

\* C17: the calls of a /method1 request are a prefix of query synthesis,
\* read_neo4j_cypher, grounding, and those of a /method2 request a prefix of
\* text2cypher, grounding; when a step has failed the calls stop at that step
\* and the request is answered with the failure envelope of sendJson.
C17_StepsInOrder ==
  \A s \in Slots : LET r == req[s] IN
    r.ep \in {"/method1", "/method2"} =>
      /\ IsPrefix(CallNames(r), Plan(r.ep))
      /\ r.pc = "synth" => Len(r.calls) = 1
      /\ r.pc = "tool" => Len(r.calls) = ToolStep(r.ep)
      /\ r.pc = "ground" => Len(r.calls) = Len(Plan(r.ep))
      /\ r.synthR.st = "error" => Len(r.calls) = 1
      /\ r.toolR.st = "error" => Len(r.calls) = ToolStep(r.ep)
      /\ r.toolR.st = "none" => Len(r.calls) <= ToolStep(r.ep)
      /\ StepFailed(r) =>
           /\ Done(s)
           /\ r.thrown.thrown
           /\ r.resp = sendJson(FALSE, NoPayload, r.thrown)
           /\ Status(s) = 500 /\ Body(s).ok = False

\* A /method1 request whose tool call failed after its synthesis succeeded.
C17_Witness ==
  \E s \in Slots :
    /\ Done(s) /\ req[s].ep = "/method1"
    /\ req[s].synthR.st = "text" /\ req[s].toolR.st = "error"
    /\ CallNames(req[s]) = <<"translateToCypher", "read_neo4j_cypher">>

SynthCalls(r) ==
  {i \in 1..Len(r.calls) : r.calls[i].name = Str(<<"translateToCypher">>)}

\* C18: an activation issues at most one query-synthesis call, at most one
\* tool call and at most one grounding call, whatever failed; an invocation
\* of translateToCypher issues exactly one completion request.
C18_NoRetry ==
  \A s \in Slots : LET r == req[s] IN
    /\ Cardinality(SynthCalls(r)) <= 1
    /\ Cardinality(ToolCalls(r)) <= 1
    /\ Cardinality(GroundCalls(r)) <= 1
    /\ Cardinality(LlmCalls(r)) = Cardinality(SynthCalls(r)) + Cardinality(GroundCalls(r))
    /\ (r.pc = "synth" \/ r.synthR.st # "none") => Cardinality(SynthCalls(r)) = 1
    /\ (r.pc = "idle" \/ r.ep \notin {"/method1", "/no-rag"}) => SynthCalls(r) = {}

\* A request answered after its query synthesis failed.
C18_Witness ==
  \E s \in Slots :
    /\ Done(s) /\ req[s].synthR.st = "error"
    /\ Cardinality(SynthCalls(req[s])) = 1
    /\ ToolCalls(req[s]) = {}

\* ------------------------------------------------------------- /method2 extraction

\* C19: in /method2, when the text of the first content block is not JSON,
\* the text itself is the data grounded on and the grounding call is issued;
\* the request is not answered with the parse error.
C19_RawTextKept ==
  \A s \in Slots : LET r == req[s]
                       block == FirstBlock(r.toolR.result) IN
    (/\ r.ep = "/method2" /\ r.toolR.st = "result"
     /\ block.type = "text" /\ Truthy(block.text)
     /\ ~Parses(block.text.s)) =>
      /\ r.data = block.text
      /\ GroundCalls(r) # {}
      /\ r.thrown # Error(SyntaxMessage)

\* The indices of the text blocks of a result with a content sequence.
TextBlocks(result) ==
  IF result.content = "blocks"
  THEN {i \in 1..Len(result.blocks) :
          result.blocks[i].type = "text" /\ Truthy(result.blocks[i].text)}
  ELSE {}

\* C20: in /method2 the query and the data come from the first text block of
\* the content sequence, at whatever index it stands.
C20_FirstTextBlockAnywhere ==
  \A s \in Slots : LET r == req[s]
                       found == TextBlocks(r.toolR.result) IN
    (/\ r.ep = "/method2" /\ r.toolR.st = "result"
     /\ found # {}) =>
      LET first == CHOOSE i \in found : \A j \in found : i <= j
          text == r.toolR.result.blocks[first].text.s
      IN IsObjectText(text) =>
           /\ r.cypherQuery = Or(Member(text, "cypher"), Member(text, "cypherQuery"))
           /\ r.data = Or(Or(Or(Member(text, "graphData"), Member(text, "rows")),
                             Member(text, "records")), Str(<<>>))


\* ------------------------------------------------------------- /method2 payload alone

\* The values a key of the parsed tool response may hold: absent, the falsy
\* values JSON can carry, and truthy ones (an empty array is an object).
Null == [t |-> "null", s |-> <<>>]
Zero == [t |-> "number", s |-> <<"0">>]
KeyValues ==
  {Undefined, Null, False, Zero, Str(<<>>), Str(<<"x">>), Obj(<<"[]">>), Obj(<<"[1]">>)}

\* The parsed responses handed to the extraction of /method2.
ExtractProbes ==
  {[pc |-> "parsed",
    parsed |-> [cypher |-> Str(<<"M", "c">>), cypherQuery |-> Undefined,
                graphData |-> g, rows |-> w, records |-> c],
    data |-> Undefined] : g \in KeyValues, w \in KeyValues, c \in KeyValues}

ExtractInit == Loaded /\ Mounted /\ probe \in ExtractProbes

\* Line 115 of the /method2 handler on the parsed response.
Extract ==
  /\ probe.pc = "parsed"
  /\ probe' = [probe EXCEPT !.pc = "extracted", !.data = GraphDataOf(probe.parsed)]
  /\ UNCHANGED <<mcpClientPromise, alive, req, served, tester>>

SpecExtract == ExtractInit /\ [][Extract]_vars

\* C21: the grounding payload is the value of the first key present among
\* graphData, rows, records, whatever that value is; the empty string only
\* when all three are absent.
C21_FirstPresentKeyWins ==
  probe.pc = "extracted" =>
    LET parsed == probe.parsed IN
    probe.data = IF parsed.graphData # Undefined THEN parsed.graphData
                 ELSE IF parsed.rows # Undefined THEN parsed.rows
                 ELSE IF parsed.records # Undefined THEN parsed.records
                 ELSE Str(<<>>)


\* ------------------------------------------------------------- grounding prompt alone

\* .slice(0, 10000) in groundedAnswer.
Budget == 10000

\* How far below and above the budget the serializations examined reach.
MaxOver == 6

Quote == "\""
Backslash == "\\"

\* str.slice(start, end) for 0 <= start <= end.
Slice(str, start, end) ==
  SubSeq(str, start + 1, IF end < Len(str) THEN end ELSE Len(str))

\* The characters of a string as JSON.stringify writes them between the
\* quotes: a quote and a backslash are preceded by a backslash.
RECURSIVE Escape(_)
Escape(chars) ==
  LET special == {i \in 1..Len(chars) : chars[i] \in {Quote, Backslash}} IN
  IF special = {} THEN chars
  ELSE LET i == CHOOSE k \in special : \A j \in special : k <= j
       IN SubSeq(chars, 1, i - 1) \o <<Backslash, chars[i]>>
            \o Escape(SubSeq(chars, i + 1, Len(chars)))

\* An array of n zeros, and its text [0,0,...,0].
Zeros(n) == [t |-> "array", s |-> [i \in 1..n |-> "0"]]
ArrayText(items) ==
  IF items = <<>> THEN <<"[", "]">>
  ELSE [i \in 1..(2 * Len(items) + 1) |->
          IF i = 1 THEN "["
          ELSE IF i = 2 * Len(items) + 1 THEN "]"
          ELSE IF i % 2 = 0 THEN items[i \div 2] ELSE ","]

\* JSON.stringify(value): a string, or undefined for undefined.
Stringify(v) ==
  CASE v.t = "undefined" -> Undefined
    [] v.t = "null" -> Str(<<"n", "u", "l", "l">>)
    [] v.t = "string" -> Str(<<Quote>> \o Escape(v.s) \o <<Quote>>)
    [] v.t = "array" -> Str(ArrayText(v.s))

\* Mutant of DataText: the whole serialization.
DataTextWhole(graphData) == Stringify(graphData).s

\* JSON.stringify(graphData).slice(0, 10000), for a graphData that has a
\* serialization.
DataText(graphData) == Slice(Stringify(graphData).s, 0, Budget)

\* The payloads handed to groundedAnswer: strings of x that end in nothing, a
\* quote or a backslash, and arrays, with serializations of up to MaxOver
\* characters and of MaxOver characters around the budget; null; undefined.
Lengths == (0..MaxOver) \cup ((Budget - MaxOver)..(Budget + MaxOver))
Tails == {<<>>, <<Quote>>, <<Backslash>>, <<Quote, "x">>}
Payloads ==
  {Str([i \in 1..n |-> "x"] \o tail) : n \in Lengths, tail \in Tails}
  \cup {Zeros(n \div 2) : n \in Lengths}
  \cup {Null, Undefined}

PromptProbes == {[pc |-> "called", data |-> d, context |-> <<>>] : d \in Payloads}

PromptInit == Loaded /\ Mounted /\ probe \in PromptProbes

\* Line 56 of groundedAnswer: the data text of the prompt, or the TypeError of
\* undefined.slice.
Embed ==
  /\ probe.pc = "called"
  /\ probe' = IF groundedAnswerThrows(probe.data)
              THEN [probe EXCEPT !.pc = "thrown"]
              ELSE [probe EXCEPT !.pc = "embedded", !.context = DataText(probe.data)]
  /\ UNCHANGED <<mcpClientPromise, alive, req, served, tester>>

SpecPrompt == PromptInit /\ [][Embed]_vars

\* C22: the data text embedded in the grounding prompt is the prefix of the
\* payload's JSON serialization of length min(length, 10000): at most 10000
\* characters, and the whole serialization when that is shorter.
C22_TruncatedSerialization ==
  /\ (probe.pc = "thrown") => Stringify(probe.data) = Undefined
  /\ (probe.pc = "embedded") =>
       LET whole == Stringify(probe.data).s IN
       /\ IsPrefix(probe.context, whole)
       /\ Len(probe.context) = (IF Len(whole) < 10000 THEN Len(whole) ELSE 10000)
       /\ Len(probe.context) <= 10000
       /\ Len(whole) <= 10000 => probe.context = whole

\* A payload whose serialization is longer than the budget has been cut, in
\* the middle of an escape sequence.
C22_Witness ==
  /\ probe.pc = "embedded"
  /\ Len(Stringify(probe.data).s) > 10000
  /\ Len(probe.context) = 10000
  /\ probe.context[10000] = Backslash


\* ------------------------------------------------------------- responses sent

\* A request arrives, for any endpoint; res.json will write its success
\* envelope, or will throw on it.
ReceiveSend(s) ==
  \E brittle \in BOOLEAN :
    \/ \E ep \in {"/method1", "/method2", "/no-rag"} :
         Accept(s, [Begin(ep, Str(<<"q1">>), Undefined, Undefined)
                      EXCEPT !.brittle = brittle])
    \/ \E ep \in {"/sync/sf", "/mcp", "/schema/build", "/kg/build"} :
         Accept(s, [Begin(ep, Undefined,
                          IF ep = "/mcp" THEN Str(<<"upsert_salesforce">>) ELSE Undefined,
                          IF ep = "/sync/sf" THEN Record ELSE Undefined)
                      EXCEPT !.brittle = brittle])

\* The gateway when res.json may throw on a success envelope.
NextSend ==
  \/ ConnectOk
  \/ ConnectFail
  \/ \E s \in Slots :
       \/ ReceiveSend(s)
       \/ ReceiveHealth(s)
       \/ ResumeConn(s)
       \/ ResumeSynth(s)
       \/ ResumeTool(s)
       \/ ResumeGround(s)
       \/ Close(s)

SpecSend == Init /\ [][NextSend]_vars

\* C23: an activation has written exactly one body to its response once it
\* has ended and none before; also when res.json threw on the success
\* envelope and the catch sent the failure envelope.
C23_ExactlyOneResponse ==
  \A s \in Slots :
    /\ Done(s) => req[s].sends = 1 /\ Status(s) \in {200, 500}
    /\ ~Done(s) => req[s].sends = 0 /\ req[s].resp = NoResponse

\* A request whose steps all succeeded and whose success envelope could not
\* be sent: the catch has sent the failure envelope.
C23_Witness ==
  \E s \in Slots :
    /\ Done(s) /\ req[s].brittle
    /\ req[s].ep = "/method1" /\ req[s].groundR.st = "text"
    /\ req[s].thrown = Error(SendMessage)
    /\ Status(s) = 500 /\ req[s].sends = 1


\* ------------------------------------------------------------- health

\* C24: a /health request is answered at once with 200, ok = true and
\* mcp = true, whether the connection handle is pending, fulfilled or
\* rejected; it never waits on the handle and issues no external call.
C24_HealthAlwaysOk ==
  \A s \in Slots : req[s].ep = "/health" =>
    /\ Done(s)
    /\ Status(s) = 200
    /\ Body(s).ok = True /\ Body(s).mcp = True
    /\ Body(s).error = Undefined
    /\ req[s].calls = <<>>
    /\ ~req[s].thrown.thrown

\* A /health request answered after the connection attempt had failed.
C24_Witness ==
  \E s \in Slots :
    /\ req[s].ep = "/health" /\ Done(s) /\ req[s].late
    /\ mcpClientPromise.state = "rejected"
    /\ Body(s).mcp = True


\* ------------------------------------------------------------- McpToolTester

\* What the Apex method callMcpTool resolves with for call id, and what it
\* rejects with: an error with body.message, and one without.
Results(id) == {Obj(<<"res", ToString(id)>>), Null}
Rejections(id) ==
  {[message |-> Str(<<"msg", ToString(id)>>)], [message |-> Undefined]}

\* err?.body?.message || JSON.stringify(err)
TesterError(err) == Or(err.message, Str(<<"{", "}">>))

\* callMcp up to its await: the three assignments and the Apex call.
CallMcp ==
  /\ tester.started < MaxCalls
  /\ tester' = [tester EXCEPT !.loading = TRUE, !.result = Null, !.error = Null,
                  !.started = @ + 1, !.pending = @ \cup {tester.started + 1}]
  /\ UNCHANGED <<mcpClientPromise, alive, req, served, probe>>

\* The Apex call of one callMcp resolves: the try block ends, then finally.
McpResolved(id) ==
  /\ id \in tester.pending
  /\ \E res \in Results(id) :
       tester' = [tester EXCEPT !.result = res, !.loading = FALSE,
                    !.pending = @ \ {id}]
  /\ UNCHANGED <<mcpClientPromise, alive, req, served, probe>>

\* The Apex call of one callMcp rejects: the catch block, then finally.
McpRejected(id) ==
  /\ id \in tester.pending
  /\ \E err \in Rejections(id) :
       tester' = [tester EXCEPT !.error = TesterError(err), !.loading = FALSE,
                    !.pending = @ \ {id}]
  /\ UNCHANGED <<mcpClientPromise, alive, req, served, probe>>

NextTester ==
  \/ CallMcp
  \/ \E id \in 1..MaxCalls : McpResolved(id) \/ McpRejected(id)

SpecTester == Init /\ [][NextTester]_vars

\* A field that holds a value: neither null nor undefined.
NonNull(v) == v.t \notin {"null", "undefined"}

\* C25: whatever the interleaving of callMcp invocations and completions,
\* result and error are never both set, and loading is true exactly when a
\* call is in flight.
C25_TesterConsistent ==
  /\ ~(NonNull(tester.result) /\ NonNull(tester.error))
  /\ tester.loading <=> (tester.pending # {})


=============================================================================
